---- MODULE Spec2Model ----
(***************************************************************************)
(* A model of app.py, the Streamlit script that extracts the rows of the   *)
(* selected names from every sheet of a workbook, fills in the ISIN from a *)
(* lookup workbook and writes a formatted workbook.                        *)
(*                                                                         *)
(* Strings are sequences of one-character strings, so that substring       *)
(* tests, case folding, parsing and ordering are computed, not assumed.    *)
(* A cell is a record [t, s, n, d]:                                        *)
(*   t = "nan"   an empty cell (pandas NaN)                                *)
(*   t = "nat"   a missing timestamp (pandas NaT)                          *)
(*   t = "str"   the string s                                              *)
(*   t = "num"   the number n / d (d > 0)                                  *)
(*   t = "date"  the Timestamp of the calendar day n = yyyymmdd            *)
(* A DataFrame is [columns, index, rows]: the ordered column labels, the   *)
(* row labels, and one function from column label to cell for each row.    *)
(***************************************************************************)
EXTENDS Integers, Sequences, FiniteSets, TLC

VARIABLES xls, lookup_file, all_names, selected_names, lookup_df, sheet,
          df, filtered, combined_rows, final_df, ws, pc, outcome

vars == <<xls, lookup_file, all_names, selected_names, lookup_df, sheet,
          df, filtered, combined_rows, final_df, ws, pc, outcome>>

None == [t |-> "none", s |-> <<>>, n |-> 0, d |-> 1]
NaN == [t |-> "nan", s |-> <<>>, n |-> 0, d |-> 1]
NaT == [t |-> "nat", s |-> <<>>, n |-> 0, d |-> 1]
StrCell(s) == [t |-> "str", s |-> s, n |-> 0, d |-> 1]
NumCell(n, d) == [t |-> "num", s |-> <<>>, n |-> n, d |-> d]
DateCell(n) == [t |-> "date", s |-> <<>>, n |-> n, d |-> 1]

Range(f) == {f[k] : k \in DOMAIN f}

-----------------------------------------------------------------------------
(* Characters and Python's str operations.                                 *)

\* The characters in use, in code-point order.
Alphabet ==
    <<" ", "-", ".", "0", "1", "2", "3", "4", "5", "6", "7", "8", "9", ":",
      "A", "B", "C", "D", "E", "F", "G", "H", "I", "J", "K", "L", "M",
      "N", "O", "P", "Q", "R", "S", "T", "U", "V", "W", "X", "Y", "Z",
      "a", "b", "c", "d", "e", "f", "g", "h", "i", "j", "k", "l", "m",
      "n", "o", "p", "q", "r", "s", "t", "u", "v", "w", "x", "y", "z">>

Ord(c) == CHOOSE k \in DOMAIN Alphabet : Alphabet[k] = c

DigitChars == <<"0", "1", "2", "3", "4", "5", "6", "7", "8", "9">>
IsDigit(c) == c \in Range(DigitChars)
DigitVal(c) == (CHOOSE k \in DOMAIN DigitChars : DigitChars[k] = c) - 1

\* str.lower() on one character, then on a string.
LowerChar(c) ==
    IF Ord(c) >= Ord("A") /\ Ord(c) <= Ord("Z")
    THEN Alphabet[Ord(c) + (Ord("a") - Ord("A"))]
    ELSE c
Lower(s) == [k \in DOMAIN s |-> LowerChar(s[k])]

\* `sub in s` on strings.
Contains(s, sub) ==
    \E k \in 0..(Len(s) - Len(sub)) : SubSeq(s, k + 1, k + Len(sub)) = sub

StartsWith(s, prefix) ==
    Len(s) >= Len(prefix) /\ SubSeq(s, 1, Len(prefix)) = prefix

\* s.strip() == ''
StripIsEmpty(s) == \A k \in DOMAIN s : s[k] = " "

\* Python's < on strings: code-point lexicographic order.
RECURSIVE StrLess(_, _)
StrLess(a, b) ==
    IF b = <<>> THEN FALSE
    ELSE IF a = <<>> THEN TRUE
    ELSE IF Ord(Head(a)) < Ord(Head(b)) THEN TRUE
    ELSE IF Ord(Head(a)) > Ord(Head(b)) THEN FALSE
    ELSE StrLess(Tail(a), Tail(b))

\* sorted(S) for a set of strings.
RECURSIVE sorted(_)
sorted(S) ==
    IF S = {} THEN <<>>
    ELSE LET m == CHOOSE x \in S : \A y \in S \ {x} : StrLess(x, y)
         IN  <<m>> \o sorted(S \ {m})

\* str(n) for an integer n.
RECURSIVE NatStr(_)
NatStr(n) ==
    IF n < 10 THEN <<DigitChars[n + 1]>>
    ELSE NatStr(n \div 10) \o <<DigitChars[(n % 10) + 1]>>
IntStr(n) == IF n < 0 THEN <<"-">> \o NatStr(-n) ELSE NatStr(n)

\* The value of a string of digits.
RECURSIVE DigitsVal(_)
DigitsVal(s) ==
    IF s = <<>> THEN 0
    ELSE DigitsVal(SubSeq(s, 1, Len(s) - 1)) * 10 + DigitVal(s[Len(s)])
AllDigits(s) == s /= <<>> /\ \A k \in DOMAIN s : IsDigit(s[k])

-----------------------------------------------------------------------------
(* pandas conversions.                                                     *)

\* The dtype pandas gives a column read from a sheet.
dtype(col) ==
    IF col /= <<>> /\ \A k \in DOMAIN col : col[k].t = "num" /\ col[k].d = 1
        THEN "int64"
    ELSE IF \A k \in DOMAIN col : col[k].t \in {"num", "nan"} THEN "float64"
    ELSE IF col /= <<>> /\ \A k \in DOMAIN col : col[k].t \in {"date", "nat"}
        THEN "datetime64"
    ELSE "object"

\* A column of a DataFrame as a Series: its dtype and its values.
Series(frame, c) ==
    LET col == [k \in DOMAIN frame.rows |-> frame.rows[k][c]]
    IN  [dtype |-> dtype(col), values |-> col]

\* A dropna that drops nothing.
dropna_KeepsMissing(ser) == ser

\* Series.dropna(): the dtype is kept.
dropna(ser) ==
    [dtype |-> ser.dtype,
     values |-> SelectSeq(ser.values, LAMBDA c : c.t \notin {"nan", "nat"})]

\* str(x) of one element of a column of the given dtype. The numbers of
\* the Name columns are integral: 7 is "7" in an int64 or object column
\* and "7.0" in a float64 column (one that also has empty cells).
StrOf(c, dt) ==
    CASE c.t = "str" -> c.s
      [] c.t = "nan" -> <<"n", "a", "n">>
      [] c.t = "nat" -> <<"N", "a", "T">>
      [] c.t = "num" ->
            IF dt = "float64" THEN IntStr(c.n \div c.d) \o <<".", "0">>
            ELSE IntStr(c.n \div c.d)
      [] c.t = "date" ->
            NatStr(c.n \div 10000) \o <<"-">>
            \o NatStr((c.n \div 1000) % 10) \o NatStr((c.n \div 100) % 10)
            \o <<"-">> \o NatStr((c.n \div 10) % 10) \o NatStr(c.n % 10)
            \o <<" ", "0", "0", ":", "0", "0", ":", "0", "0">>

\* Series.astype(str)
astype_str(ser) == [k \in DOMAIN ser.values |-> StrOf(ser.values[k], ser.dtype)]

\* pd.to_numeric(x, errors='coerce') on one element: a number stays, a
\* string of an optional sign and digits is parsed, anything else is NaN.
\* (The Units strings of the uploaded sheets are integers or no numbers.)
to_numeric(c) ==
    CASE c.t = "num" -> c
      [] c.t = "str" ->
            IF AllDigits(c.s) THEN NumCell(DigitsVal(c.s), 1)
            ELSE IF Len(c.s) > 1 /\ c.s[1] = "-" /\ AllDigits(Tail(c.s))
                THEN NumCell(-DigitsVal(Tail(c.s)), 1)
            ELSE NaN
      [] OTHER -> NaN

\* x > v for a coerced number (NaN > v is False).
Gt(c, v) == c.t = "num" /\ c.n > v * c.d

\* A string "yyyy-mm-dd" naming a calendar day.
IsIsoDate(s) ==
    /\ Len(s) = 10
    /\ s[5] = "-" /\ s[8] = "-"
    /\ \A k \in {1, 2, 3, 4, 6, 7, 9, 10} : IsDigit(s[k])
    /\ DigitsVal(SubSeq(s, 6, 7)) \in 1..12
    /\ DigitsVal(SubSeq(s, 9, 10)) \in 1..31

\* pd.to_datetime(x, errors='coerce') on one element: a Timestamp stays, a
\* date string is parsed, anything that is no date becomes NaT. (The date
\* cells of the uploaded files are Timestamps, strings or empty.)
to_datetime(c) ==
    CASE c.t = "date" -> c
      [] c.t = "str" ->
            IF IsIsoDate(c.s)
            THEN DateCell(DigitsVal(SubSeq(c.s, 1, 4)) * 10000
                          + DigitsVal(SubSeq(c.s, 6, 7)) * 100
                          + DigitsVal(SubSeq(c.s, 9, 10)))
            ELSE NaT
      [] OTHER -> NaT

\* The elementwise == of pandas: a missing value equals nothing, numbers
\* compare by value, values of different kinds differ.
Eq(a, b) ==
    /\ a.t \notin {"nan", "nat", "none"}
    /\ a.t = b.t
    /\ CASE a.t = "num" -> a.n * b.d = b.n * a.d
         [] a.t = "str" -> a.s = b.s
         [] a.t = "date" -> a.n = b.n

-----------------------------------------------------------------------------
(* DataFrames and the steps of the script.                                 *)

ColName == <<"N", "a", "m", "e">>
ColUnits == <<"U", "n", "i", "t", "s">>
ColNBFC == <<"N", "B", "F", "C">>
ColISIN == <<"I", "S", "I", "N">>
ColIssueDate == <<"I", "s", "s", "u", "e", " ", "D", "a", "t", "e">>
ColMaturityDate ==
    <<"M", "a", "t", "u", "r", "i", "t", "y", " ", "D", "a", "t", "e">>

\* usecols="A:J": the number of leading columns read from a sheet.
UseCols == 10

EmptyFrame == [columns |-> <<>>, index |-> <<>>, rows |-> <<>>]

\* The DataFrame with the given columns and rows (each row a sequence of
\* cells in column order) under the default index 0, 1, ...
Frame(columns, rowSeqs) ==
    [columns |-> columns,
     index |-> [k \in DOMAIN rowSeqs |-> k - 1],
     rows |-> [k \in DOMAIN rowSeqs |->
                 [c \in Range(columns) |->
                    rowSeqs[k][CHOOSE j \in DOMAIN columns : columns[j] = c]]]]

HasCol(frame, c) == c \in Range(frame.columns)

\* columns.get_loc(c), zero-based.
get_loc(frame, c) == (CHOOSE j \in DOMAIN frame.columns : frame.columns[j] = c) - 1

\* pd.read_excel(xls, sheet_name=sheet, usecols="A:J")
read_excel(sh) ==
    LET cols == SubSeq(sh.columns, 1,
                       IF Len(sh.columns) < UseCols THEN Len(sh.columns) ELSE UseCols)
    IN  [columns |-> cols,
         index |-> sh.index,
         rows |-> [k \in DOMAIN sh.rows |-> [c \in Range(cols) |-> sh.rows[k][c]]]]

\* Lines 19-23: the names of all sheets, or the KeyError of a sheet that has
\* no 'Name' column.
RECURSIVE CollectFrom(_, _)
CollectFrom(k, acc) ==
    IF k > Len(xls) THEN [raised |-> "", names |-> sorted(acc)]
    ELSE LET d == read_excel(xls[k])
         IN  IF ~HasCol(d, ColName) THEN [raised |-> "KeyError", names |-> <<>>]
             ELSE CollectFrom(k + 1,
                    acc \cup Range(astype_str(dropna(Series(d, ColName)))))

\* frame[mask]: the rows where the mask holds, under their labels.
RECURSIVE Positions(_, _)
Positions(mask, k) ==
    IF k > Len(mask) THEN <<>>
    ELSE (IF mask[k] THEN <<k>> ELSE <<>>) \o Positions(mask, k + 1)

BoolIndex(frame, mask) ==
    LET keep == Positions(mask, 1)
    IN  [columns |-> frame.columns,
         index |-> [j \in DOMAIN keep |-> frame.index[keep[j]]],
         rows |-> [j \in DOMAIN keep |-> frame.rows[keep[j]]]]

\* The mask with Units >= 0 in place of Units > 0.
FilterMask_ZeroPasses(frame, names) ==
    LET nm == astype_str(Series(frame, ColName))
        un == Series(frame, ColUnits).values
    IN  [k \in DOMAIN frame.rows |->
            nm[k] \in names /\ Gt(to_numeric(un[k]), -1)]

\* Lines 47-48: the mask of the rows to keep.
FilterMask(frame, names) ==
    LET nm == astype_str(Series(frame, ColName))
        un == Series(frame, ColUnits).values
    IN  [k \in DOMAIN frame.rows |->
            nm[k] \in names /\ Gt(to_numeric(un[k]), 0)]

\* Lines 52-54: the blank and 'Unnamed' columns are dropped.
DropCol(c) == StripIsEmpty(c) \/ StartsWith(c, <<"U", "n", "n", "a", "m", "e", "d">>)

DropColumns(frame) ==
    LET cols == SelectSeq(frame.columns, LAMBDA c : ~DropCol(c))
    IN  [columns |-> cols,
         index |-> frame.index,
         rows |-> [k \in DOMAIN frame.rows |->
                     [c \in Range(cols) |-> frame.rows[k][c]]]]

\* frame.insert(idx, c, v), for a column c the frame does not have.
Insert(frame, idx, c, v) ==
    LET cols == SubSeq(frame.columns, 1, idx) \o <<c>>
                \o SubSeq(frame.columns, idx + 1, Len(frame.columns))
    IN  [columns |-> cols,
         index |-> frame.index,
         rows |-> [k \in DOMAIN frame.rows |->
                     [x \in Range(cols) |->
                        IF x = c THEN v ELSE frame.rows[k][x]]]]

\* frame[c] = values: an existing column is overwritten in place, a new
\* one is added last.
SetColumn(frame, c, values) ==
    LET cols == IF HasCol(frame, c) THEN frame.columns
                ELSE Append(frame.columns, c)
    IN  [columns |-> cols,
         index |-> frame.index,
         rows |-> [k \in DOMAIN frame.rows |->
                     [x \in Range(cols) |->
                        IF x = c THEN values[k] ELSE frame.rows[k][x]]]]

\* Lines 30-39: the lookup sheet without header, columns A, B, F, H, the
\* two date columns coerced.
ParseLookup(file) ==
    [k \in DOMAIN file |->
        [nbfc |-> file[k].nbfc,
         isin |-> file[k].isin,
         issue_date |-> to_datetime(file[k].issue_date),
         maturity_date |-> to_datetime(file[k].maturity_date)]]

\* Lines 68-72: the rows of the lookup table equal to the row on all three.
Matches(lk, row) ==
    SelectSeq(lk, LAMBDA e :
        /\ Eq(e.nbfc, row[ColNBFC])
        /\ Eq(e.issue_date, row[ColIssueDate])
        /\ Eq(e.maturity_date, row[ColMaturityDate]))

\* The last matching entry taken, not the first.
get_isin_LastMatch(lk, row) ==
    LET match == Matches(lk, row)
    IN  IF match /= <<>> THEN match[Len(match)].isin ELSE StrCell(<<>>)

\* Lines 67-73
get_isin(lk, row) ==
    LET match == Matches(lk, row)
    IN  IF match /= <<>> THEN match[1].isin ELSE StrCell(<<>>)

\* Lines 64-65: the two date columns coerced to datetime.
CoerceDates(frame) ==
    SetColumn(
        SetColumn(frame, ColIssueDate,
                  [k \in DOMAIN frame.rows |-> to_datetime(frame.rows[k][ColIssueDate])]),
        ColMaturityDate,
        [k \in DOMAIN frame.rows |-> to_datetime(frame.rows[k][ColMaturityDate])])

\* Lines 61-75: the ISIN column filled from the lookup table. get_isin
\* reads row['NBFC'], a KeyError when the frame has no such column.
Autofill(frame, lk) ==
    IF ~lk.present THEN [raised |-> "", filtered |-> frame]
    ELSE IF ~(HasCol(frame, ColIssueDate) /\ HasCol(frame, ColMaturityDate))
        THEN [raised |-> "", filtered |-> frame]
    ELSE LET f == CoerceDates(frame)
         IN  IF ~HasCol(f, ColNBFC) THEN [raised |-> "KeyError", filtered |-> f]
             ELSE [raised |-> "",
                   filtered |-> SetColumn(f, ColISIN,
                       [k \in DOMAIN f.rows |-> get_isin(lk.rows, f.rows[k])])]

\* The ISIN column inserted at the position of 'NBFC', not after it.
InsertISIN_AtNBFC(frame) ==
    IF ~HasCol(frame, ColNBFC) THEN [raised |-> "", filtered |-> frame]
    ELSE IF HasCol(frame, ColISIN) THEN [raised |-> "ValueError", filtered |-> frame]
    ELSE [raised |-> "",
          filtered |-> Insert(frame, get_loc(frame, ColNBFC), ColISIN, StrCell(<<>>))]

\* Lines 56-59: an empty ISIN column right after 'NBFC'. insert refuses a
\* column the frame already has (ValueError).
InsertISIN(frame) ==
    IF ~HasCol(frame, ColNBFC) THEN [raised |-> "", filtered |-> frame]
    ELSE IF HasCol(frame, ColISIN) THEN [raised |-> "ValueError", filtered |-> frame]
    ELSE [raised |-> "",
          filtered |-> Insert(frame, get_loc(frame, ColNBFC) + 1, ColISIN, StrCell(<<>>))]

\* A loop that passes over a sheet without 'Name' or 'Units' in silence.
SheetStep_SkipsBadSheet(sh, names, lk, before) ==
    LET d == read_excel(sh)
    IN  IF ~HasCol(d, ColName) \/ ~HasCol(d, ColUnits)
        THEN [raised |-> "", df |-> d, filtered |-> before, appended |-> FALSE]
        ELSE
        LET f0 == BoolIndex(d, FilterMask(d, names))
        IN  IF f0.rows = <<>>
            THEN [raised |-> "", df |-> d, filtered |-> f0, appended |-> FALSE]
            ELSE
            LET ins == InsertISIN(DropColumns(f0))
            IN  IF ins.raised /= ""
                THEN [raised |-> ins.raised, df |-> d, filtered |-> ins.filtered,
                      appended |-> FALSE]
                ELSE
                LET fill == Autofill(ins.filtered, lk)
                IN  [raised |-> fill.raised, df |-> d, filtered |-> fill.filtered,
                     appended |-> fill.raised = ""]

\* Lines 45-77: one iteration of the loop over the sheets. The result names
\* the exception raised (if any), the values left in df and filtered, and
\* whether filtered was appended to combined_rows.
SheetStep(sh, names, lk, before) ==
    LET d == read_excel(sh)
    IN  IF ~HasCol(d, ColName) \/ ~HasCol(d, ColUnits)
        THEN [raised |-> "KeyError", df |-> d, filtered |-> before, appended |-> FALSE]
        ELSE
        LET f0 == BoolIndex(d, FilterMask(d, names))
        IN  IF f0.rows = <<>>
            THEN [raised |-> "", df |-> d, filtered |-> f0, appended |-> FALSE]
            ELSE
            LET ins == InsertISIN(DropColumns(f0))
            IN  IF ins.raised /= ""
                THEN [raised |-> ins.raised, df |-> d, filtered |-> ins.filtered,
                      appended |-> FALSE]
                ELSE
                LET fill == Autofill(ins.filtered, lk)
                IN  [raised |-> fill.raised, df |-> d, filtered |-> fill.filtered,
                     appended |-> fill.raised = ""]

\* The union of the columns of the frames in order of first appearance.
RECURSIVE UnionColumns(_)
UnionColumns(frames) ==
    IF frames = <<>> THEN <<>>
    ELSE LET rest == UnionColumns(SubSeq(frames, 1, Len(frames) - 1))
             last == frames[Len(frames)]
         IN  rest \o SelectSeq(last.columns, LAMBDA c : c \notin Range(rest))

\* The rows of the frames with the last frame first.
RECURSIVE ConcatRows_LastFirst(_, _)
ConcatRows_LastFirst(frames, cols) ==
    IF frames = <<>> THEN <<>>
    ELSE LET f == frames[Len(frames)]
         IN  [k \in DOMAIN f.rows |->
                [c \in Range(cols) |-> IF HasCol(f, c) THEN f.rows[k][c] ELSE NaN]]
             \o ConcatRows_LastFirst(SubSeq(frames, 1, Len(frames) - 1), cols)

\* The rows of the frames one after the other, over the given columns.
RECURSIVE ConcatRows(_, _)
ConcatRows(frames, cols) ==
    IF frames = <<>> THEN <<>>
    ELSE LET f == Head(frames)
         IN  [k \in DOMAIN f.rows |->
                [c \in Range(cols) |-> IF HasCol(f, c) THEN f.rows[k][c] ELSE NaN]]
             \o ConcatRows(Tail(frames), cols)

\* Line 80: pd.concat(frames, ignore_index=True)
concat(frames) ==
    LET cols == UnionColumns(frames)
        rows == ConcatRows(frames, cols)
    IN  [columns |-> cols, index |-> [k \in DOMAIN rows |-> k - 1], rows |-> rows]

\* Lines 89-90: the header row and the data rows appended to the sheet. No
\* cell of a DataFrame is Python's None: an empty cell is the float NaN.
Worksheet(frame) ==
    <<[j \in DOMAIN frame.columns |->
          [value |-> StrCell(frame.columns[j]), style |-> "Normal"]]>>
    \o [k \in DOMAIN frame.rows |->
          [j \in DOMAIN frame.columns |->
              [value |-> frame.rows[k][frame.columns[j]], style |-> "Normal"]]]

\* Lines 93-103: the number format of each named style.
number_format(style) ==
    CASE style = "percentage" -> "0.00%"
      [] style = "comma" -> "#,##0"
      [] style = "date_dd_mmm_yy" -> "DD-MMM-YY"
      [] style = "month_year" -> "MMM-YY"
      [] OTHER -> "General"

Interest == <<"I", "n", "t", "e", "r", "e", "s", "t">>
Amount == <<"A", "m", "o", "u", "n", "t">>
Date == <<"D", "a", "t", "e">>
issue == <<"i", "s", "s", "u", "e">>
maturity == <<"m", "a", "t", "u", "r", "i", "t", "y">>
issue_date == <<"i", "s", "s", "u", "e", " ", "d", "a", "t", "e">>
maturity_date ==
    <<"m", "a", "t", "u", "r", "i", "t", "y", " ", "d", "a", "t", "e">>

\* The branches with 'Amount' tested before 'Interest'.
Branch_AmountFirst(col_name) ==
    IF Contains(col_name, Amount) THEN "comma"
    ELSE IF Contains(col_name, Interest) THEN "percentage"
    ELSE IF /\ Contains(col_name, Date)
            /\ ~\E x \in {issue, maturity} : Contains(Lower(col_name), x)
        THEN "date_dd_mmm_yy"
    ELSE IF \E x \in {issue_date, maturity_date, issue, maturity} :
                Contains(Lower(col_name), x)
        THEN "month_year"
    ELSE "Normal"

\* Lines 114, 125, 134, 143: the branch taken for a column.
Branch(col_name) ==
    IF Contains(col_name, Interest) THEN "percentage"
    ELSE IF Contains(col_name, Amount) THEN "comma"
    ELSE IF /\ Contains(col_name, Date)
            /\ ~\E x \in {issue, maturity} : Contains(Lower(col_name), x)
        THEN "date_dd_mmm_yy"
    ELSE IF \E x \in {issue_date, maturity_date, issue, maturity} :
                Contains(Lower(col_name), x)
        THEN "month_year"
    ELSE "Normal"

\* The division applied from 1 on, not above 1.
Rescale_FromOne(v) ==
    IF v.t = "num" /\ v.n >= v.d THEN NumCell(v.n, v.d * 100) ELSE v

\* Lines 119-120: isinstance(value, (int, float)) and value > 1 (NaN is a
\* float, and not greater than 1).
Rescale(v) == IF v.t = "num" /\ Gt(v, 1) THEN NumCell(v.n, v.d * 100) ELSE v

\* Lines 115-150: what a branch does to one data cell.
FormatCell(branch, cell) ==
    IF branch = "Normal" \/ cell.value = None THEN cell
    ELSE [value |-> IF branch = "percentage" THEN Rescale(cell.value) ELSE cell.value,
          style |-> branch]

\* Lines 111-150: every column formatted from row 2 on.
ApplyFormatting(sheetRows, columns) ==
    [r \in DOMAIN sheetRows |->
        IF r < 2 THEN sheetRows[r]
        ELSE [j \in DOMAIN columns |->
                FormatCell(Branch(columns[j]), sheetRows[r][j])]]

-----------------------------------------------------------------------------
(* The uploaded files.                                                     *)

MaxRows == 2
MaxSheets == 2
MaxLookup == 2

SeqsUpTo(S, lo, hi) == UNION {[1..k -> S] : k \in lo..hi}

A == StrCell(<<"A">>)
B == StrCell(<<"B">>)
X == StrCell(<<"X">>)
Y == StrCell(<<"Y">>)
IN1 == StrCell(<<"I", "N", "1">>)
IN2 == StrCell(<<"I", "N", "2">>)
D1 == DateCell(20200101)
D2 == DateCell(20210101)
S1 == StrCell(<<"2", "0", "2", "0", "-", "0", "1", "-", "0", "1">>)
TBD == StrCell(<<"T", "B", "D">>)
Two == NumCell(2, 1)

NoLookup == [present |-> FALSE, rows |-> <<>>]
Lookup(rows) == [present |-> TRUE, rows |-> rows]
Entry(k, id, d1, d2) ==
    [nbfc |-> k, isin |-> id, issue_date |-> d1, maturity_date |-> d2]

\* One sheet with Name and Units columns: a first row of every kind of
\* Name and of Units, then up to MaxRows - 1 rows of a few kinds.
NameVals == {NaN, A, B, NumCell(7, 1)}
UnitsVals == {NaN, Two, NumCell(0, 1), NumCell(-3, 1), NumCell(1, 2),
              StrCell(<<"2">>), StrCell(<<"-", "3">>), StrCell(<<"x">>)}
MoreRows == {<<A, StrCell(<<"x">>)>>, <<B, Two>>, <<NaN, NumCell(0, 1)>>}

FilterInputs ==
    {[xls |-> <<Frame(<<ColName, ColUnits>>, <<first>> \o rest)>>,
      lookup_file |-> NoLookup] :
        first \in {<<nm, un>> : nm \in NameVals, un \in UnitsVals},
        rest \in SeqsUpTo(MoreRows, 0, MaxRows - 1)}

\* Sheets of differing columns and column orders, some without a required
\* column, some with an ISIN column of their own.
ColUnnamed == <<"U", "n", "n", "a", "m", "e", "d", ":", " ", "2">>
ColInterestRate ==
    <<"I", "n", "t", "e", "r", "e", "s", "t", " ", "R", "a", "t", "e">>
ColTotalAmount == <<"T", "o", "t", "a", "l", " ", "A", "m", "o", "u", "n", "t">>

SheetCatalog ==
    { Frame(<<ColName, ColUnits, ColNBFC, ColIssueDate, ColMaturityDate>>,
            << <<A, Two, X, D1, D2>>, <<B, Two, Y, S1, TBD>> >>),
      Frame(<<ColName, ColUnits>>, << <<A, Two>>, <<B, NumCell(0, 1)>> >>),
      Frame(<<ColName, ColNBFC>>, << <<A, X>> >>),
      Frame(<<ColUnits, ColNBFC>>, << <<Two, X>> >>),
      Frame(<<ColName, ColUnits, ColIssueDate, ColMaturityDate>>,
            << <<A, Two, D1, D2>> >>),
      Frame(<<ColMaturityDate, ColNBFC, ColUnnamed, ColName, ColUnits>>,
            << <<D2, X, NaN, B, Two>>, <<D2, Y, NaN, A, Two>> >>),
      Frame(<<ColName, ColUnits, ColISIN>>, << <<A, Two, IN1>> >>),
      Frame(<<ColName, ColUnits, ColNBFC, ColISIN>>, << <<A, Two, X, IN1>> >>),
      Frame(<<ColName, ColUnits, ColInterestRate, ColTotalAmount, ColNBFC>>,
            << <<B, StrCell(<<"2">>), NumCell(5, 1), NumCell(12345, 1), Y>> >>) }

CatalogLookup == Lookup(<<Entry(X, IN1, D1, D2), Entry(Y, IN2, S1, TBD)>>)

CatalogInputs ==
    {[xls |-> w, lookup_file |-> lf] :
        w \in SeqsUpTo(SheetCatalog, 1, MaxSheets), lf \in {NoLookup, CatalogLookup}}

\* One row to look up in every lookup table of up to MaxLookup entries.
QueryRows ==
    {<<A, Two, k, d[1], d[2]>> :
        k \in {X, NaN}, d \in {<<D1, D2>>, <<S1, D2>>, <<TBD, D2>>, <<D1, NaN>>}}
    \cup {<<A, Two, Y, D1, D2>>}
LookupEntries ==
    {Entry(k, id, d[1], d[2]) :
        k \in {X, NaN}, id \in {IN1, IN2},
        d \in {<<D1, D2>>, <<D1, TBD>>, <<NaN, D2>>}}

LookupInputs ==
    {[xls |-> <<Frame(<<ColName, ColUnits, ColNBFC, ColIssueDate, ColMaturityDate>>,
                      <<q>>)>>,
      lookup_file |-> Lookup(es)] :
        q \in QueryRows, es \in SeqsUpTo(LookupEntries, 0, MaxLookup)}

\* One sheet with one more column, whose name decides its format: a first
\* cell of every kind, then up to MaxRows - 1 cells of two kinds.
FormatCols ==
    { ColInterestRate, ColTotalAmount,
      Interest \o <<" ">> \o Amount,
      Amount \o <<" ">> \o Date,
      <<"T", "r", "a", "d", "e", " ">> \o Date,
      ColIssueDate, ColMaturityDate,
      <<"M", "a", "t", "u", "r", "i", "t", "y">>,
      <<"I", "S", "S", "U", "E">>,
      <<"i", "n", "t", "e", "r", "e", "s", "t">>,
      <<"d", "a", "t", "e">>,
      <<"R", "e", "m", "a", "r", "k", "s">> }
FormatVals == {NaN, NumCell(5, 1), NumCell(1, 1), NumCell(1, 2), NumCell(3, 2),
               StrCell(<<"x">>), D1}
MoreVals == {NumCell(5, 1), NaN}

FormatInputs ==
    {[xls |-> <<Frame(<<ColName, ColUnits, c>>,
                      [k \in 1..(Len(vs) + 1) |->
                          <<A, Two, IF k = 1 THEN v ELSE vs[k - 1]>>])>>,
      lookup_file |-> NoLookup] :
        c \in FormatCols, v \in FormatVals, vs \in SeqsUpTo(MoreVals, 0, MaxRows - 1)}

Inputs == FilterInputs \cup CatalogInputs \cup LookupInputs \cup FormatInputs

-----------------------------------------------------------------------------
(* The script, one run from the upload to its outcome. outcome is the set   *)
(* of what the run has shown: "download" (the download button with the     *)
(* workbook), "info" (the notice that no row matched), or the exception    *)
(* that ended it.                                                          *)

Init ==
    /\ \E input \in Inputs :
        /\ xls = input.xls
        /\ lookup_file = input.lookup_file
    /\ all_names = <<>>
    /\ selected_names = {}
    /\ lookup_df = NoLookup
    /\ sheet = 1
    /\ df = EmptyFrame
    /\ filtered = EmptyFrame
    /\ combined_rows = <<>>
    /\ final_df = EmptyFrame
    /\ ws = <<>>
    /\ pc = "collect"
    /\ outcome = {}

\* Lines 18-23
CollectNames ==
    /\ pc = "collect"
    /\ LET res == CollectFrom(1, {})
       IN  /\ all_names' = res.names
           /\ outcome' = IF res.raised /= "" THEN outcome \cup {res.raised} ELSE outcome
           /\ pc' = IF res.raised /= "" THEN "done" ELSE "select"
    /\ UNCHANGED <<xls, lookup_file, selected_names, lookup_df, sheet, df,
                   filtered, combined_rows, final_df, ws>>

\* Line 25: the user's choice among the names offered.
Multiselect ==
    /\ pc = "select"
    /\ \E chosen \in SUBSET Range(all_names) : selected_names' = chosen
    /\ pc' = "lookup"
    /\ UNCHANGED <<xls, lookup_file, all_names, lookup_df, sheet, df, filtered,
                   combined_rows, final_df, ws, outcome>>

\* Lines 27-41: the lookup file parsed when there is one; nothing more is
\* done when no name is selected.
ReadLookup ==
    /\ pc = "lookup"
    /\ lookup_df' = IF lookup_file.present
                    THEN Lookup(ParseLookup(lookup_file.rows))
                    ELSE NoLookup
    /\ pc' = IF selected_names /= {} THEN "filter" ELSE "done"
    /\ UNCHANGED <<xls, lookup_file, all_names, selected_names, sheet, df,
                   filtered, combined_rows, final_df, ws, outcome>>

\* Lines 44-77: the next sheet filtered, enriched and collected.
ProcessSheet ==
    /\ pc = "filter"
    /\ sheet <= Len(xls)
    /\ LET res == SheetStep(xls[sheet], selected_names, lookup_df, filtered)
       IN  /\ df' = res.df
           /\ filtered' = res.filtered
           /\ combined_rows' = IF res.appended
                               THEN Append(combined_rows, res.filtered)
                               ELSE combined_rows
           /\ outcome' = IF res.raised /= "" THEN outcome \cup {res.raised} ELSE outcome
           /\ pc' = IF res.raised /= "" THEN "done"
                    ELSE IF sheet = Len(xls) THEN "output" ELSE "filter"
           /\ sheet' = IF res.raised /= "" THEN sheet ELSE sheet + 1
    /\ UNCHANGED <<xls, lookup_file, all_names, selected_names, lookup_df,
                   final_df, ws>>

\* Lines 79-173: the combined table written, formatted and offered. The
\* column widths (lines 152-163) change no value and no style and are left
\* out; wb.save writes what ws holds.
Download ==
    /\ pc = "output"
    /\ combined_rows /= <<>>
    /\ final_df' = concat(combined_rows)
    /\ ws' = ApplyFormatting(Worksheet(final_df'), final_df'.columns)
    /\ outcome' = outcome \cup {"download"}
    /\ pc' = "done"
    /\ UNCHANGED <<xls, lookup_file, all_names, selected_names, lookup_df,
                   sheet, df, filtered, combined_rows>>

\* The notice shown whether or not rows were collected.
Info_Unguarded ==
    /\ pc = "output"
    /\ outcome' = outcome \cup {"info"}
    /\ pc' = "done"
    /\ UNCHANGED <<xls, lookup_file, all_names, selected_names, lookup_df,
                   sheet, df, filtered, combined_rows, final_df, ws>>

\* Lines 174-175
Info ==
    /\ pc = "output"
    /\ combined_rows = <<>>
    /\ outcome' = outcome \cup {"info"}
    /\ pc' = "done"
    /\ UNCHANGED <<xls, lookup_file, all_names, selected_names, lookup_df,
                   sheet, df, filtered, combined_rows, final_df, ws>>

Next ==
    \/ CollectNames
    \/ Multiselect
    \/ ReadLookup
    \/ ProcessSheet
    \/ Download
    \/ Info

Spec == Init /\ [][Next]_vars

-----------------------------------------------------------------------------
(* What the claims speak of, stated on the uploaded files.                 *)

Failed == outcome \cap {"KeyError", "ValueError"} /= {}

\* The names were collected: every sheet has a 'Name' column.
Collected == pc /= "collect" /\ \A k \in DOMAIN xls : HasCol(xls[k], ColName)

\* The string form of the Name of row j of sheet k.
NameString(k, j) == astype_str(Series(xls[k], ColName))[j]

\* A cell that parses as a number greater than 0: a positive number, or a
\* string of digits that are not all zero.
PositiveNumber(c) ==
    \/ c.t = "num" /\ c.n > 0
    \/ /\ c.t = "str"
       /\ c.s /= <<>>
       /\ \A i \in DOMAIN c.s : IsDigit(c.s[i])
       /\ \E i \in DOMAIN c.s : c.s[i] /= "0"

\* Row j of sheet k passes the filter.
Qualifies(k, j) ==
    /\ NameString(k, j) \in selected_names
    /\ PositiveNumber(xls[k].rows[j][ColUnits])

\* Sheet k has been filtered and enriched, and is the last one that was.
JustProcessed(k) ==
    /\ pc \in {"filter", "output", "done"}
    /\ ~Failed
    /\ selected_names /= {}
    /\ k = sheet - 1
    /\ k >= 1

\* C1: a row of a sheet is in the sheet's filtered table exactly when the
\* string form of its Name is selected and its Units parse as a number
\* greater than 0; sheets of Name and Units columns alone never end the run
\* with an error, whatever their Units hold.
C1_FilterKeepsExactlyQualifyingRows ==
    /\ \A k \in DOMAIN xls :
          JustProcessed(k) =>
              \A j \in DOMAIN xls[k].rows :
                  (j - 1 \in Range(filtered.index)) <=> Qualifies(k, j)
    /\ (\A k \in DOMAIN xls : Range(xls[k].columns) = {ColName, ColUnits}) => ~Failed

\* C1 witness: of two rows with a selected Name, the one with Units "2"
\* was kept and the one with non-numeric Units was left out.
C1_Witness ==
    /\ JustProcessed(1)
    /\ Len(xls[1].rows) = 2
    /\ \A j \in 1..2 : NameString(1, j) \in selected_names
    /\ xls[1].rows[1][ColUnits] = StrCell(<<"2">>)
    /\ xls[1].rows[2][ColUnits] = StrCell(<<"x">>)
    /\ filtered.index = <<0>>

\* The string forms of the non-null Name values of all sheets.
NameStrings ==
    UNION {{NameString(k, j) : j \in {i \in DOMAIN xls[k].rows :
                                        xls[k].rows[i][ColName].t \notin {"nan", "nat"}}} :
           k \in DOMAIN xls}

\* C9: the list of names offered is sorted, without duplicates, and holds
\* exactly the string forms of the non-null Name values of all sheets.
C9_NamesSortedUniqueComplete ==
    Collected =>
        /\ \A i \in 1..(Len(all_names) - 1) : StrLess(all_names[i], all_names[i + 1])
        /\ Range(all_names) = NameStrings

\* C9 witness: two sheets holding the same two names, offered once each.
C9_Witness ==
    /\ Collected
    /\ Len(xls) = 2
    /\ \A k \in 1..2 : {NameString(k, j) : j \in DOMAIN xls[k].rows} = {<<"A">>, <<"B">>}
    /\ all_names = << <<"A">>, <<"B">> >>

\* The rows of sheet k that pass the filter, as <<k, j>>, in row order.
QualifyingRows(k) ==
    IF ~(HasCol(xls[k], ColName) /\ HasCol(xls[k], ColUnits)) THEN <<>>
    ELSE LET js == SelectSeq([j \in DOMAIN xls[k].rows |-> j],
                             LAMBDA j : Qualifies(k, j))
         IN  [n \in DOMAIN js |-> <<k, js[n]>>]

\* The rows of sheets k, k + 1, ... that pass the filter, sheet by sheet.
RECURSIVE SourcesFrom(_)
SourcesFrom(k) ==
    IF k > Len(xls) THEN <<>> ELSE QualifyingRows(k) \o SourcesFrom(k + 1)

RECURSIVE TotalRows(_)
TotalRows(frames) ==
    IF frames = <<>> THEN 0 ELSE Len(Head(frames).rows) + TotalRows(Tail(frames))

\* The dates of sheet k are coerced when a lookup file was given and the
\* sheet has both date columns.
Coerced(k) ==
    /\ lookup_file.present
    /\ HasCol(xls[k], ColIssueDate)
    /\ HasCol(xls[k], ColMaturityDate)

\* C5: the combined table holds the passing rows of the sheets, sheet by
\* sheet in sheet order and in row order within a sheet: as many rows as
\* the per-sheet tables together, each carrying the cells of its source row
\* (the dates coerced where enrichment coerced them).
C5_CombinedIsConcatenation ==
    "download" \in outcome =>
        LET src == SourcesFrom(1)
        IN  /\ Len(final_df.rows) = Len(src)
            /\ Len(final_df.rows) = TotalRows(combined_rows)
            /\ \A n \in DOMAIN src :
                  LET k == src[n][1]
                      row == xls[k].rows[src[n][2]]
                  IN  \A c \in Range(xls[k].columns) :
                        ~DropCol(c) =>
                            final_df.rows[n][c] =
                                IF c \in {ColIssueDate, ColMaturityDate} /\ Coerced(k)
                                THEN to_datetime(row[c])
                                ELSE row[c]

\* C5 witness: two sheets of different columns gave three rows or more.
C5_Witness ==
    /\ "download" \in outcome
    /\ Len(combined_rows) = 2
    /\ combined_rows[1].columns /= combined_rows[2].columns
    /\ Len(combined_rows[1].rows) = 2
    /\ Len(final_df.rows) >= 3

ISINFollowsNBFC ==
    HasCol(final_df, ColISIN) =>
        /\ HasCol(final_df, ColNBFC)
        /\ get_loc(final_df, ColISIN) = get_loc(final_df, ColNBFC) + 1

\* C6 as stated: in every combined table that has an ISIN column, it comes
\* right after the NBFC column.
C6_ISINAlwaysAfterNBFC == "download" \in outcome => ISINFollowsNBFC

\* C6 as amended: when no uploaded sheet has an ISIN column of its own, the
\* ISIN column of the combined table, if any, comes right after NBFC.
C6_InsertedISINAfterNBFC ==
    ("download" \in outcome /\ \A k \in DOMAIN xls : ~HasCol(xls[k], ColISIN))
        => ISINFollowsNBFC

\* C6 witness: a first table without NBFC and a second one with it, the
\* ISIN column present in the union of their columns.
C6_Witness ==
    /\ "download" \in outcome
    /\ \A k \in DOMAIN xls : ~HasCol(xls[k], ColISIN)
    /\ Len(combined_rows) = 2
    /\ ~HasCol(combined_rows[1], ColNBFC)
    /\ HasCol(final_df, ColISIN)

\* C3 as stated: a sheet without NBFC column (and without an ISIN column of
\* its own) is enriched without error, whether or not a lookup file and the
\* date columns are there, and its table gets no ISIN column.
C3_NoNBFCNoErrorNoISIN ==
    \A k \in DOMAIN xls :
        ( /\ HasCol(xls[k], ColName) /\ HasCol(xls[k], ColUnits)
          /\ ~HasCol(xls[k], ColNBFC) /\ ~HasCol(xls[k], ColISIN) )
        => /\ ~(Collected /\ pc = "done" /\ Failed /\ sheet = k)
           /\ JustProcessed(k) => ~HasCol(filtered, ColISIN)

SomeSheetLacks(c) == \E k \in DOMAIN xls : ~HasCol(xls[k], c)
FirstSheetLacking(c) ==
    CHOOSE k \in DOMAIN xls :
        ~HasCol(xls[k], c) /\ \A i \in 1..(k - 1) : HasCol(xls[i], c)

\* C7: a sheet without 'Name' ends the run with the error while the names
\* are collected; a sheet without 'Units' ends a run with names selected
\* with an error no later than at that sheet; in both cases no workbook is
\* written or offered, whatever the earlier sheets gave.
C7_MissingColumnSurfacedNoArtifact ==
    /\ (SomeSheetLacks(ColName) /\ pc /= "collect")
          => pc = "done" /\ outcome = {"KeyError"} /\ all_names = <<>>
    /\ (Collected /\ SomeSheetLacks(ColUnits) /\ selected_names /= {} /\ pc = "done")
          => /\ Failed
             /\ sheet <= FirstSheetLacking(ColUnits)
             /\ sheet = FirstSheetLacking(ColUnits) => outcome = {"KeyError"}
    /\ (SomeSheetLacks(ColName) \/ SomeSheetLacks(ColUnits))
          => "download" \notin outcome /\ ws = <<>> /\ final_df = EmptyFrame

\* C7 witness: the run ended with the KeyError at a sheet without 'Units'
\* after an earlier sheet had given rows.
C7_Witness ==
    /\ pc = "done"
    /\ outcome = {"KeyError"}
    /\ Collected
    /\ ~HasCol(xls[sheet], ColUnits)
    /\ combined_rows /= <<>>

\* C4 as stated: every selection ends in exactly one of the notice (no row
\* passes) and the workbook (some row passes).
C4_ExactlyOneOutcome ==
    (Collected /\ pc = "done") =>
        \/ outcome = {"info"} /\ SourcesFrom(1) = <<>>
        \/ outcome = {"download"} /\ SourcesFrom(1) /= <<>>

\* C4 as amended: a run never shows both the notice and the workbook; with
\* no name selected it shows neither; with names selected a run that ends
\* without error shows exactly one, the notice when no row passes and the
\* workbook otherwise; a run that ends with an error shows neither.
C4_OneOutcomeWhenSelectedAndNoError ==
    /\ ~({"info", "download"} \subseteq outcome)
    /\ pc /= "done" => outcome = {}
    /\ (Collected /\ pc = "done") =>
          /\ selected_names = {} => outcome = {}
          /\ (selected_names /= {} /\ ~Failed) =>
                \/ outcome = {"info"} /\ SourcesFrom(1) = <<>> /\ ws = <<>>
                \/ outcome = {"download"} /\ SourcesFrom(1) /= <<>> /\ ws /= <<>>
          /\ Failed => outcome \cap {"info", "download"} = {}

\* C4 witness: names were selected, no row passed, the notice was shown.
C4_Witness ==
    /\ pc = "done"
    /\ selected_names /= {}
    /\ outcome = {"info"}
    /\ \E k \in DOMAIN xls : \E j \in DOMAIN xls[k].rows :
          NameString(k, j) \in selected_names

\* Two keys are equal: neither is missing and they are the same value.
SameKey(a, b) == a.t \in {"str", "num"} /\ a = b

\* Two coerced dates are equal: neither is null and they are the same day.
SameDay(a, b) == a.t = "date" /\ b.t = "date" /\ a.n = b.n

\* The entries of the lookup table that equal the row on all three fields.
MatchingEntries(row) ==
    {e \in DOMAIN lookup_df.rows :
        /\ SameKey(lookup_df.rows[e].nbfc, row[ColNBFC])
        /\ SameDay(lookup_df.rows[e].issue_date, row[ColIssueDate])
        /\ SameDay(lookup_df.rows[e].maturity_date, row[ColMaturityDate])}

\* A raw cell that is no date.
Unparseable(c) == c.t \in {"nan", "nat"} \/ (c.t = "str" /\ ~IsIsoDate(c.s))

\* The ISIN column of the last sheet was filled from the lookup table.
Autofilled(k) ==
    /\ JustProcessed(k)
    /\ lookup_df.present
    /\ filtered.rows /= <<>>
    /\ HasCol(filtered, ColNBFC)
    /\ HasCol(filtered, ColIssueDate)
    /\ HasCol(filtered, ColMaturityDate)

\* C2: the ISIN written for a row is the identifier of the first entry, in
\* table order, equal to the row on key, issue date and maturity date, and
\* is empty when there is none; a null date on the row's side or on the
\* entry's side never matches, a null date included.
C2_FirstMatchOrEmpty ==
    \A k \in DOMAIN xls :
        Autofilled(k) =>
            \A i \in DOMAIN filtered.rows :
                LET row == filtered.rows[i]
                    raw == xls[k].rows[filtered.index[i] + 1]
                    M == MatchingEntries(row)
                IN  /\ M = {} => row[ColISIN] = StrCell(<<>>)
                    /\ M /= {} =>
                          row[ColISIN] =
                              lookup_df.rows[CHOOSE e \in M : \A o \in M : e <= o].isin
                    /\ (Unparseable(raw[ColIssueDate]) \/ Unparseable(raw[ColMaturityDate]))
                          => row[ColISIN] = StrCell(<<>>)
                    /\ \A e \in M :
                          /\ ~Unparseable(lookup_file.rows[e].issue_date)
                          /\ ~Unparseable(lookup_file.rows[e].maturity_date)

\* C2 witness: two entries with different identifiers match the row, and
\* the row got the identifier of the first.
C2_Witness ==
    /\ Autofilled(1)
    /\ Len(lookup_df.rows) = 2
    /\ MatchingEntries(filtered.rows[1]) = {1, 2}
    /\ lookup_df.rows[1].isin /= lookup_df.rows[2].isin
    /\ filtered.rows[1][ColISIN] = lookup_df.rows[1].isin

\* The style the rules give a column, each rule stated with the rules
\* before it excluded.
NamesIssueOrMaturity(c) ==
    Contains(Lower(c), issue) \/ Contains(Lower(c), maturity)

ExpectedStyle(c) ==
    CASE Contains(c, Interest) -> "percentage"
      [] ~Contains(c, Interest) /\ Contains(c, Amount) -> "comma"
      [] /\ ~Contains(c, Interest) /\ ~Contains(c, Amount)
         /\ Contains(c, Date) /\ ~NamesIssueOrMaturity(c) -> "date_dd_mmm_yy"
      [] /\ ~Contains(c, Interest) /\ ~Contains(c, Amount)
         /\ NamesIssueOrMaturity(c) -> "month_year"
      [] OTHER -> "Normal"

\* C8: every column of the combined table gets the style of the first rule
\* its name matches, on every data cell that is not None and on no header
\* cell; a column that matches no rule keeps the default style.
C8_FirstMatchingRuleStylesColumn ==
    "download" \in outcome =>
        /\ Len(ws) = Len(final_df.rows) + 1
        /\ \A j \in DOMAIN final_df.columns :
              /\ ws[1][j] = [value |-> StrCell(final_df.columns[j]), style |-> "Normal"]
              /\ \A r \in 2..Len(ws) :
                    ws[r][j].style =
                        IF ws[r][j].value /= None
                        THEN ExpectedStyle(final_df.columns[j])
                        ELSE "Normal"

\* C8 witness: a column whose name holds both "Interest" and "Amount" has
\* its data cells styled as a percentage and its header cell left alone.
C8_Witness ==
    /\ "download" \in outcome
    /\ \E j \in DOMAIN final_df.columns :
          /\ Contains(final_df.columns[j], Interest)
          /\ Contains(final_df.columns[j], Amount)
          /\ Len(ws) = 3
          /\ ws[1][j].style = "Normal"
          /\ ws[2][j].style = "percentage"
          /\ ws[3][j].style = "percentage"

GreaterThanOne(v) == v.t = "num" /\ v.n > v.d

\* C10: in a column whose name contains "Interest" a number above 1 is
\* stored divided by 100, any other value is stored as it was, and the
\* cell has the format 0.00%; in every other column the stored value is
\* the value of the combined table.
C10_InterestRescaledOthersKept ==
    "download" \in outcome =>
        \A j \in DOMAIN final_df.columns : \A r \in 2..Len(ws) :
            LET c == final_df.columns[j]
                raw == final_df.rows[r - 1][c]
                cell == ws[r][j]
            IN  IF Contains(c, Interest)
                THEN /\ number_format(cell.style) = "0.00%"
                     /\ GreaterThanOne(raw) =>
                           /\ cell.value.t = "num"
                           /\ cell.value.n * raw.d * 100 = raw.n * cell.value.d
                     /\ ~GreaterThanOne(raw) => cell.value = raw
                ELSE cell.value = raw

\* C10 witness: "Interest Rate" 5 is stored as 5/100 with the percentage
\* format, and "Total Amount" 12345 beside it is stored as 12345.
C10_Witness ==
    /\ "download" \in outcome
    /\ \E j, a \in DOMAIN final_df.columns :
          /\ final_df.columns[j] = ColInterestRate
          /\ final_df.rows[1][ColInterestRate] = NumCell(5, 1)
          /\ ws[2][j] = [value |-> NumCell(5, 100), style |-> "percentage"]
          /\ final_df.columns[a] = ColTotalAmount
          /\ ws[2][a] = [value |-> NumCell(12345, 1), style |-> "comma"]

====
